---- MODULE Spec2Model ----
(***************************************************************************)
(* easyply: rule coercion, optional expansion, the wrapper (adapter)       *)
(* generator and the thread-local location context of                      *)
(* src/easyply/__init__.py.                                                *)
(*                                                                         *)
(* Three specifications share the module:                                  *)
(*   Spec        adapters running on threads, location() calls             *)
(*   SpecWrap    create_wrapper / _coerce_to_single_rule on one input      *)
(*   SpecExpand  expand_optionals on one input                             *)
(***************************************************************************)
EXTENDS Integers, Sequences, FiniteSets, Bags, TLC

VARIABLES stack, locmap, outcome, lastloc, calls, arg, ret

vars == <<stack, locmap, outcome, lastloc, calls, arg, ret>>

rtvars == <<stack, locmap, outcome, lastloc, calls>>

\* ------------------------------------------------------------------ bounds

\* top-level items of a Rule
MaxTerms == 2

\* terms inside one optional group
MaxGroupLen == 2

\* lines of one DSL text
MaxLines == 2

\* items of a list passed where a ruleset is expected
MaxList == 2

\* adapter invocations in one behaviour (all threads, nested ones included)
MaxCalls == 3

\* ------------------------------------------------------------- term model

None == "None"

\* an attribute or slot that holds nothing, and one that holds v
Unset == [set |-> FALSE]

Attr(v) == [set |-> TRUE, value |-> v]

PlainTerm(s) == [kind |-> "plain", symbol |-> s, name |-> None, terms |-> <<>>, present |-> TRUE]

NamedTerm(s, n) == [kind |-> "named", symbol |-> s, name |-> n, terms |-> <<>>, present |-> TRUE]

OptionalGroup(ts, here) == [kind |-> "opt", symbol |-> None, name |-> None, terms |-> ts, present |-> here]

Rule(n, ts) == [name |-> n, terms |-> ts]

\* str.lower() on the symbols the model uses
Lower(s) == CASE s = "A" -> "a" [] s = "B" -> "b" [] s = "SYM" -> "sym" [] OTHER -> s

SeqsUpTo(S, n) == UNION {[1..k -> S] : k \in 0..n}

NonEmptySeqsUpTo(S, n) == UNION {[1..k -> S] : k \in 1..n}

FlatTerms == {PlainTerm("A"), NamedTerm("A", "a"), NamedTerm("B", "b")}

Groups == {OptionalGroup(ts, TRUE) : ts \in NonEmptySeqsUpTo(FlatTerms, MaxGroupLen)}

FlatRules == {Rule("production", ts) : ts \in SeqsUpTo(FlatTerms, MaxTerms)}

GroupRules == {Rule("production", ts) : ts \in SeqsUpTo(FlatTerms \cup Groups, MaxTerms)}

RECURSIVE Concat(_)
Concat(ss) == IF ss = <<>> THEN <<>> ELSE Head(ss) \o Concat(Tail(ss))

RECURSIVE SeqToBag(_)
SeqToBag(s) == IF s = <<>> THEN EmptyBag ELSE SetToBag({Head(s)}) (+) SeqToBag(Tail(s))

Range(s) == {s[i] : i \in DOMAIN s}

\* ------------------------------------------------ Rule methods and parser

\* Rule.flatten(): present groups are spliced in at their position, absent
\* groups dropped; a Rule without groups is returned term for term.
RECURSIVE FlattenTerms(_)
FlattenTerms(ts) ==
  IF ts = <<>> THEN <<>>
  ELSE LET h == Head(ts)
       IN  (IF h.kind = "opt"
            THEN (IF h.present THEN FlattenTerms(h.terms) ELSE <<>>)
            ELSE <<h>>) \o FlattenTerms(Tail(ts))

Flatten(rule) == Rule(rule.name, FlattenTerms(rule.terms))

\* One term of the rendered production text, as a sequence of tokens.
FormatTerm(t, pure_ply) ==
  IF t.kind = "named" /\ ~pure_ply
  THEN <<"{", t.symbol, ":", t.name, "}">>
  ELSE <<t.symbol>>

\* Rule.format(pure_ply): "name : sym1 sym2 ...", as a sequence of tokens.
Format(rule, pure_ply) ==
  <<rule.name, ":">> \o Concat([i \in DOMAIN rule.terms |-> FormatTerm(rule.terms[i], pure_ply)])

\* Rule.expand_optionals(): one Rule per present/absent choice over the
\* optional groups, as a list (2^k entries for k groups).
RECURSIVE Resolutions(_)
Resolutions(ts) ==
  IF ts = <<>> THEN << <<>> >>
  ELSE LET h    == Head(ts)
           rest == Resolutions(Tail(ts))
           with(x) == [i \in DOMAIN rest |-> <<x>> \o rest[i]]
       IN  IF h.kind = "opt"
           THEN with([h EXCEPT !.present = FALSE]) \o with([h EXCEPT !.present = TRUE])
           ELSE with(h)

RuleExpandOptionals(rule) ==
  LET rs == Resolutions(rule.terms) IN [i \in DOMAIN rs |-> Rule(rule.name, rs[i])]

\* DSL tokens: SYMBOL, {SYMBOL}, {SYMBOL:name}, ( term+ )?
SymTok(s) == [tok |-> "sym", symbol |-> s, name |-> None, toks |-> <<>>]

NamedTok(s, n) == [tok |-> "named", symbol |-> s, name |-> n, toks |-> <<>>]

OptTok(ts) == [tok |-> "opt", symbol |-> None, name |-> None, toks |-> ts]

Line(n, ts) == [name |-> n, toks |-> ts]

\* A token to a Term; an omitted binding name is the lower-cased symbol.
RECURSIVE ParseTok(_)
ParseTok(t) ==
  CASE t.tok = "sym"   -> PlainTerm(t.symbol)
    [] t.tok = "named" -> NamedTerm(t.symbol, IF t.name = None THEN Lower(t.symbol) ELSE t.name)
    [] t.tok = "opt"   -> OptionalGroup([i \in DOMAIN t.toks |-> ParseTok(t.toks[i])], TRUE)

\* parser.parse: a DSL text (its lines) to the list of Rules it denotes.
Parse(text) ==
  [i \in DOMAIN text |-> Rule(text[i].name, [j \in DOMAIN text[i].toks |-> ParseTok(text[i].toks[j])])]

\* ------------------------------------------------------------- coercion

RuleArg(r) == [tag |-> "rule", rule |-> r]

StrArg(text) == [tag |-> "str", text |-> text]

ListArg(items) == [tag |-> "list", items |-> items]

Raise(e) == [kind |-> "raise", exc |-> e]

Ok(v) == [kind |-> "ok", value |-> v]

\* _coerce_to_ruleset.coerce_to_rule
coerce_to_rule(rule) == IF rule.tag = "str" THEN Parse(rule.text) ELSE <<rule.rule>>

\* _coerce_to_ruleset
CoerceToRuleset(ruleset) ==
  LET rs == IF ruleset.tag # "list" THEN <<ruleset>> ELSE ruleset.items
  IN  Concat([i \in DOMAIN rs |-> coerce_to_rule(rs[i])])

SingleOrFirst(ruleset) ==
  IF Len(ruleset) < 1 THEN Raise("SingleRuleExpectedError") ELSE Ok(ruleset[1])

\* the length check and unwrapping of _coerce_to_single_rule
SingleOf(ruleset) ==
  IF Len(ruleset) # 1 THEN Raise("SingleRuleExpectedError") ELSE Ok(ruleset[1])

\* _coerce_to_single_rule
CoerceToSingleRule(rule) == SingleOf(CoerceToRuleset(rule))

\* ------------------------------------------------------ expand_optionals

KeepAll(items) == SeqToBag(items)

\* list(set(...)): each distinct item once.  The list's order is the set's
\* iteration order, which the source does not fix: the list is held as a bag.
ListOfSet(items) == SetToBag(Range(items))

\* expand_optionals.process_rule
process_rule(rule, format, pure_ply) ==
  LET rules == RuleExpandOptionals(rule)
  IN  IF format
      THEN ListOfSet([i \in DOMAIN rules |-> Format(Flatten(rules[i]), pure_ply)])
      ELSE ListOfSet([i \in DOMAIN rules |-> Flatten(rules[i])])

RECURSIVE BagSum(_)
BagSum(bs) == IF bs = <<>> THEN EmptyBag ELSE Head(bs) (+) BagSum(Tail(bs))

\* expand_optionals: the per-rule lists chained
ExpandOptionals(ruleset, format, pure_ply) ==
  LET rs == CoerceToRuleset(ruleset)
  IN  BagSum([i \in DOMAIN rs |-> process_rule(rs[i], format, pure_ply)])

\* ------------------------------------------------------- create_wrapper

\* create_wrapper: the adapter closes over the flattened rule; its
\* docstring is the pure form of the rule.
CreateWrapper(rule) ==
  LET one == CoerceToSingleRule(rule)
  IN  IF one.kind = "raise" THEN one
      ELSE LET flat == Flatten(one.value)
           IN  [kind |-> "adapter", rule |-> flat, doc |-> Format(flat, TRUE)]

\* The rule texts the adapters of Spec are made from.
AdapterTexts ==
  { <<Line("production", <<NamedTok("A", None)>>)>>,
    <<Line("production", <<SymTok("SYM"), NamedTok("A", None), NamedTok("B", None)>>)>>,
    <<Line("production", <<NamedTok("A", "x"), NamedTok("B", "x")>>)>> }

Adapters == {CreateWrapper(StrArg(t)) : t \in AdapterTexts}

\* ------------------------------------------- the host's reduction object

Threads == {"t1", "t2"}

Results == {"r1"}

\* The object the host engine hands to an adapter: p[1..n] the values of the
\* matched symbols, p[0] the result slot, and the position accessors.
\* The id-th reduction of the parse is of text on line id.
Production(id, n) ==
  [id |-> id, slots |-> [i \in 1..n |-> 10 * id + i], p0 |-> None, line |-> id]

\* p[i]
Item(p, i) == IF i = 0 THEN p.p0 ELSE p.slots[i]

lineno(p, i) == p.line

lexpos(p, i) == IF i = 0 THEN 0 ELSE 2 * (i - 1)

linespan(p, i) == <<p.line, p.line>>

lexspan(p, i) ==
  IF i = 0 THEN <<0, IF Len(p.slots) = 0 THEN 0 ELSE lexpos(p, Len(p.slots))>>
  ELSE <<lexpos(p, i), lexpos(p, i)>>

\* ------------------------------------------------- create_wrapper.wrapper

NoMap == <<>>

Put(m, k, v) == [x \in DOMAIN m \cup {k} |-> IF x = k THEN v ELSE m[x]]

\* term_map after the first n terms of the loop: name -> i+1
RECURSIVE TermMapUpTo(_, _)
TermMapUpTo(ts, n) ==
  IF n = 0 THEN NoMap
  ELSE LET m == TermMapUpTo(ts, n - 1)
       IN  IF ts[n].kind = "named" THEN Put(m, ts[n].name, n) ELSE m

TermMap(ts) == TermMapUpTo(ts, Len(ts))

\* kwargs after the loop: name -> p[i+1]
Kwargs(ts, p) ==
  LET m == TermMap(ts) IN [k \in DOMAIN m |-> Item(p, m[k])]

NoContext == [production |-> Unset, terms |-> Unset]

\* _LOCATION_MAP.production = p; _LOCATION_MAP.terms = term_map
Publish(p, term_map) == [production |-> Attr(p), terms |-> Attr(term_map)]

\* ---------------------------------------------------------------- location

ExtraFns == {None, "mapping", "notmapping"}

\* What a user-supplied extra_fn returns for the raw value it is given.
ExtraFn(f, raw) ==
  CASE f = "mapping"    -> [kind |-> "mapping", value |-> [lineno |-> 99, filename |-> raw]]
    [] f = "notmapping" -> [kind |-> "other", value |-> raw]

\* hasattr(_LOCATION_MAP, ...) on the calling thread's instance
HasContext(ctx) == ctx.production # Unset /\ ctx.terms # Unset

BaseFields(p, i) ==
  [lineno |-> lineno(p, i), lexpos |-> lexpos(p, i),
   linespan |-> linespan(p, i), lexspan |-> lexspan(p, i)]

\* location(term_name, extra_fn) against the calling thread's context ctx
LocationOn(ctx, term_name, extra_fn) ==
  IF ~HasContext(ctx) THEN Raise("NotInEasyPlyRuleError")
  ELSE IF term_name \notin DOMAIN ctx.terms.value THEN Raise("KeyError")
  ELSE LET i  == IF term_name = None THEN 0 ELSE ctx.terms.value[term_name]
           p  == ctx.production.value
           rv == BaseFields(p, i)
       IN  IF extra_fn # None
           THEN LET up == ExtraFn(extra_fn, Item(p, i))
                IN  \* `instance` (line 134) is not a defined name: evaluating
                    \* it raises NameError whatever up is
                    Raise("NameError")
           ELSE Ok(rv)

SharedSlot(t) == CHOOSE u \in Threads : TRUE

\* _LOCATION_MAP = thread_local(): each thread reads and writes its own
\* instance of the attributes.
Slot(t) == t

\* the calling thread's view of _LOCATION_MAP
Context(t) == locmap[Slot(t)]

location(t, term_name, extra_fn) == LocationOn(Context(t), term_name, extra_fn)

\* ------------------------------------------------------ adapters running

Pending == [kind |-> "pending"]

\* arg, ret: the argument and the result of the library call of SpecWrap and
\* SpecExpand
NoCall == [op |-> None, res |-> Pending]

NoOutcome == [kind |-> "none", exc |-> None, id |-> 0, p0 |-> None]

NoLocation == [thread |-> None, term_name |-> None, extra_fn |-> None, result |-> Pending]

LocNames == {None, "a", "x"}

Top(t) == stack[t][Len(stack[t])]

Front(s) == SubSeq(s, 1, Len(s) - 1)

KeepContext(ctx) == [ctx |-> ctx, exc |-> None]

\* del _LOCATION_MAP.production; del _LOCATION_MAP.terms
\* (deleting an attribute that is not set raises AttributeError)
Teardown(ctx) ==
  IF ctx.production = Unset THEN [ctx |-> ctx, exc |-> "AttributeError"]
  ELSE IF ctx.terms = Unset
       THEN [ctx |-> [ctx EXCEPT !.production = Unset], exc |-> "AttributeError"]
       ELSE [ctx |-> NoContext, exc |-> None]

Init ==
  /\ stack = [t \in Threads |-> <<>>]
  /\ locmap = [t \in Threads |-> NoContext]
  /\ outcome = [t \in Threads |-> NoOutcome]
  /\ lastloc = NoLocation
  /\ calls = 0
  /\ arg = None
  /\ ret = NoCall

\* wrapper(p) up to the call of fn: the host engine (empty stack) or the
\* user function running on t (re-entrant call) invokes adapter a.
Invoke(t, a) ==
  /\ calls < MaxCalls
  /\ LET p        == Production(calls + 1, Len(a.rule.terms))
         kwargs   == Kwargs(a.rule.terms, p)
         term_map == TermMap(a.rule.terms)
         callers  == [i \in DOMAIN stack[t] |->
                        IF i = Len(stack[t]) THEN [stack[t][i] EXCEPT !.reentered = TRUE]
                        ELSE stack[t][i]]
     IN  /\ stack' = [stack EXCEPT ![t] =
                        Append(callers, [rule |-> a.rule, p |-> p, kwargs |-> kwargs,
                                         reentered |-> FALSE])]
         /\ locmap' = [locmap EXCEPT ![Slot(t)] = Publish(p, term_map)]
  /\ calls' = calls + 1
  /\ lastloc' = NoLocation
  /\ UNCHANGED <<outcome, arg, ret>>

\* fn returns v: p[0] = v, then the two del statements, then wrapper returns
\* (or the del raises and the AttributeError leaves the wrapper).
FnReturn(t, v) ==
  /\ stack[t] # <<>>
  /\ LET p  == [Top(t).p EXCEPT !.p0 = v]
         td == Teardown(Context(t))
     IN  /\ locmap' = [locmap EXCEPT ![Slot(t)] = td.ctx]
         /\ outcome' = [outcome EXCEPT ![t] =
                          IF td.exc = None
                          THEN [kind |-> "returned", exc |-> None, id |-> p.id, p0 |-> p.p0]
                          ELSE [kind |-> "raised", exc |-> td.exc, id |-> p.id, p0 |-> p.p0]]
  /\ stack' = [stack EXCEPT ![t] = Front(stack[t])]
  /\ lastloc' = NoLocation
  /\ UNCHANGED <<calls, arg, ret>>

\* fn raises: the exception leaves wrapper at line 165; lines 167-168 do
\* not run.  The caller (the host, or the outer user function) receives it.
FnRaise(t) ==
  /\ stack[t] # <<>>
  /\ outcome' = [outcome EXCEPT ![t] = [kind |-> "raised", exc |-> "UserError", id |-> Top(t).p.id, p0 |-> Top(t).p.p0]]
  /\ stack' = [stack EXCEPT ![t] = Front(stack[t])]
  /\ lastloc' = NoLocation
  /\ UNCHANGED <<locmap, calls, arg, ret>>

\* user code on t calls location(): inside the running user function, or
\* outside any adapter when the stack is empty.  lastloc holds what the call
\* gave its caller until the next step of the program.
Location(t, term_name, extra_fn) ==
  /\ lastloc' = [thread |-> t, term_name |-> term_name, extra_fn |-> extra_fn,
                 result |-> location(t, term_name, extra_fn)]
  /\ UNCHANGED <<stack, locmap, outcome, calls, arg, ret>>

Next ==
  \/ \E t \in Threads, a \in Adapters : Invoke(t, a)
  \/ \E t \in Threads, v \in Results : FnReturn(t, v)
  \/ \E t \in Threads : FnRaise(t)
  \/ \E t \in Threads, n \in LocNames, f \in ExtraFns : Location(t, n, f)

Spec == Init /\ [][Next]_vars

\* ------------------------------------------- library calls on one input

Idle ==
  /\ stack = [t \in Threads |-> <<>>]
  /\ locmap = [t \in Threads |-> NoContext]
  /\ outcome = [t \in Threads |-> NoOutcome]
  /\ lastloc = NoLocation
  /\ calls = 0

\* the lines of the DSL texts handed to create_wrapper
WrapLines ==
  { Line("production", <<NamedTok("A", None)>>),
    Line("production", <<NamedTok("A", "x"), SymTok("SYM"), NamedTok("B", "x")>>) }

WrapItems ==
  {RuleArg(r) : r \in FlatRules}
    \cup {StrArg(text) : text \in NonEmptySeqsUpTo(WrapLines, MaxLines)}

\* a Rule, a string, or a list of Rules and strings
WrapInputs == WrapItems \cup {ListArg(items) : items \in SeqsUpTo(WrapItems, MaxList)}

InitWrap ==
  /\ Idle
  /\ arg \in WrapInputs
  /\ ret = NoCall

CallCoerceToSingleRule ==
  /\ ret = NoCall
  /\ ret' = [op |-> "coerce", res |-> CoerceToSingleRule(arg)]
  /\ UNCHANGED <<rtvars, arg>>

CallCreateWrapper ==
  /\ ret = NoCall
  /\ ret' = [op |-> "wrap", res |-> CreateWrapper(arg)]
  /\ UNCHANGED <<rtvars, arg>>

NextWrap == CallCoerceToSingleRule \/ CallCreateWrapper

SpecWrap == InitWrap /\ [][NextWrap]_vars

\* "production: SYM another (SYM another)?"
ExampleText ==
  <<Line("production", <<SymTok("SYM"), SymTok("another"),
                         OptTok(<<SymTok("SYM"), SymTok("another")>>)>>)>>

ExpandTexts ==
  { ExampleText,
    <<Line("production", <<NamedTok("A", None)>>)>>,
    <<Line("production", <<NamedTok("A", None)>>),
      Line("other", <<OptTok(<<SymTok("A")>>), OptTok(<<NamedTok("A", None)>>)>>)>> }

ExpandInputs == {RuleArg(r) : r \in GroupRules} \cup {StrArg(text) : text \in ExpandTexts}

InitExpand ==
  /\ Idle
  /\ arg \in [input : ExpandInputs, format : BOOLEAN, pure_ply : BOOLEAN]
  /\ ret = NoCall

CallExpandOptionals ==
  /\ ret = NoCall
  /\ ret' = [op |-> "expand", res |-> ExpandOptionals(arg.input, arg.format, arg.pure_ply)]
  /\ UNCHANGED <<rtvars, arg>>

NextExpand == CallExpandOptionals

SpecExpand == InitExpand /\ [][NextExpand]_vars

\* ------------------------------------------------- properties under Spec

\* the user function of the adapter last invoked on t is running and has
\* not itself invoked an adapter
Executing(t) == stack[t] # <<>> /\ ~Top(t).reentered

NamedAt(ts) == {i \in DOMAIN ts : ts[i].kind = "named"}

UniqueNames(ts) == \A i, j \in NamedAt(ts) : ts[i].name = ts[j].name => i = j

\* C1: whenever control has left the adapters of a thread (normally or by
\* an exception of the user function), that thread's Reduction Context is
\* torn down: neither production nor terms remains set.
C1_TornDownOnEveryExit ==
  \A t \in Threads : stack[t] = <<>> => Context(t) = NoContext

\* C2: location(name) for a declared name succeeds exactly while an
\* adapter's user function is executing, with the fields of the name's
\* position; with no adapter executing on the thread (before any
\* invocation, after one has ended) it fails with NotInEasyPlyRuleError.
C2_LocationOnlyWhileExecuting ==
  \A t \in Threads :
    /\ stack[t] = <<>> =>
         \A n \in LocNames \ {None} : location(t, n, None) = Raise("NotInEasyPlyRuleError")
    /\ (Len(stack[t]) = 1 /\ Executing(t)) =>
         LET ts == Top(t).rule.terms
         IN  \A i \in NamedAt(ts) :
               \E j \in NamedAt(ts) :
                 /\ ts[j].name = ts[i].name
                 /\ location(t, ts[i].name, None) = Ok(BaseFields(Top(t).p, j))

\* C3: on every thread with an adapter executing, the context a location
\* call on that thread reads is the reduction object and name-to-position
\* map that adapter published, whatever the other threads have published or
\* torn down in between.
C3_ContextConfinedToThread ==
  \A t \in Threads :
    Executing(t) =>
      /\ Context(t).production = Attr(Top(t).p)
      /\ Context(t).terms = Attr(TermMap(Top(t).rule.terms))

\* An adapter started on t2 after t1's and returned while t1's user function
\* is still running.
C3_Witness ==
  /\ Executing("t1")
  /\ stack["t2"] = <<>>
  /\ outcome["t2"].kind = "returned"
  /\ outcome["t2"].id > Top("t1").p.id

\* C4: the user function is called with exactly one keyword argument per
\* Named Term, whose value is p[i] for the term's 1-based position i; the
\* published map sends each name to that position; the return value is
\* written to p[0].
C4_OneKeywordPerNamedTerm ==
  \A t \in Threads :
    /\ \A k \in DOMAIN stack[t] :
         LET f  == stack[t][k]
             ts == f.rule.terms
         IN  /\ Cardinality(DOMAIN f.kwargs) = Cardinality(NamedAt(ts))
             /\ \A i \in NamedAt(ts) :
                  /\ ts[i].name \in DOMAIN f.kwargs
                  /\ f.kwargs[ts[i].name] = Item(f.p, i)
    /\ Executing(t) =>
         \A i \in NamedAt(Top(t).rule.terms) :
           Context(t).terms.value[Top(t).rule.terms[i].name] = i
    /\ outcome[t].kind = "returned" => outcome[t].p0 \in Results

\* The statement of C4 for the rules whose binding names are unique.
KwargsWhenNamesUnique ==
  \A t \in Threads :
    /\ \A k \in DOMAIN stack[t] :
         LET f  == stack[t][k]
             ts == f.rule.terms
         IN  UniqueNames(ts) =>
               /\ Cardinality(DOMAIN f.kwargs) = Cardinality(NamedAt(ts))
               /\ \A i \in NamedAt(ts) :
                    /\ ts[i].name \in DOMAIN f.kwargs
                    /\ f.kwargs[ts[i].name] = Item(f.p, i)
    /\ (Executing(t) /\ UniqueNames(Top(t).rule.terms)) =>
         \A i \in NamedAt(Top(t).rule.terms) :
           Context(t).terms.value[Top(t).rule.terms[i].name] = i
    /\ outcome[t].kind = "returned" => outcome[t].p0 \in Results

\* C5: inside an executing adapter, location() with the name omitted
\* succeeds with the fields of position 0 of the current reduction.
C5_LocationOfResultSlot ==
  \A t \in Threads :
    Executing(t) => location(t, None, None) = Ok(BaseFields(Top(t).p, 0))

\* C8: inside an executing adapter, location(name, extra_fn) for a declared
\* name gives the base fields updated with the mapping extra_fn returns for
\* the raw value at the resolved position (its entries win on collision),
\* and fails with TypeError when extra_fn returns a non-mapping.
C8_ExtraFnMergedOrTypeError ==
  \A t \in Threads :
    Executing(t) =>
      \A n \in DOMAIN Context(t).terms.value, f \in ExtraFns \ {None} :
        LET i  == Context(t).terms.value[n]
            up == ExtraFn(f, Item(Top(t).p, i))
        IN  location(t, n, f) =
              IF up.kind = "mapping"
              THEN Ok(up.value @@ BaseFields(Top(t).p, i))
              ELSE Raise("TypeError")

\* C10: a re-entrant invocation on a thread overwrites the context with its
\* own; when it returns the context is cleared, not restored, so location in
\* the outer user function fails with NotInEasyPlyRuleError; and an adapter
\* whose user function returns while no context is set does not return
\* normally: its teardown finds nothing to delete (AttributeError).
C10_ReentrantCallClearsOuterContext ==
  [][\A t \in Threads :
       /\ (stack[t] # <<>> /\ Len(stack'[t]) = Len(stack[t]) + 1) =>
            /\ Context(t)' = Publish(Top(t)'.p, TermMap(Top(t)'.rule.terms))
            /\ Context(t)'.production # Attr(Top(t).p)
       /\ (Len(stack[t]) >= 2 /\ Len(stack'[t]) = Len(stack[t]) - 1
             /\ outcome'[t].kind = "returned") =>
            /\ Context(t)' = NoContext
            /\ \A n \in LocNames :
                 location(t, n, None)' = Raise("NotInEasyPlyRuleError")
       /\ (stack[t] # <<>> /\ Context(t) = NoContext
             /\ Len(stack'[t]) = Len(stack[t]) - 1 /\ outcome'[t].exc # "UserError") =>
            /\ outcome'[t].kind = "raised"
            /\ outcome'[t].exc = "AttributeError"
    ]_vars

\* The outer user function, after its inner adapter returned, called
\* location and got NotInEasyPlyRuleError.
C10_Witness ==
  \E t \in Threads :
    /\ Len(stack[t]) = 1
    /\ Top(t).reentered
    /\ outcome[t].kind = "returned"
    /\ outcome[t].id > Top(t).p.id
    /\ lastloc.thread = t
    /\ lastloc.term_name \in DOMAIN TermMap(Top(t).rule.terms)
    /\ lastloc.result = Raise("NotInEasyPlyRuleError")

\* ---------------------------------- properties under SpecWrap, SpecExpand

\* the Rules an argument denotes, counted item by item
RECURSIVE Denoted(_)
Denoted(x) ==
  CASE x.tag = "rule" -> 1
    [] x.tag = "str"  -> Len(x.text)
    [] x.tag = "list" -> IF x.items = <<>> THEN 0
                         ELSE Denoted(Head(x.items)) + Denoted(ListArg(Tail(x.items)))

\* C7: no adapter is produced for a Rule in which two Named Terms share a
\* binding name: create_wrapper rejects it.
C7_DuplicateNamesRejected ==
  (ret.op = "wrap" /\ ret.res.kind = "adapter") => UniqueNames(ret.res.rule.terms)

\* C9: _coerce_to_single_rule returns the Rule itself when its argument
\* denotes exactly one Rule and raises SingleRuleExpectedError when it
\* denotes none or several; create_wrapper produces no adapter then.
C9_ExactlyOneRuleOrError ==
  /\ ret.op = "coerce" =>
       IF Denoted(arg) = 1
       THEN /\ ret.res.kind = "ok"
            /\ ret.res.value \in Range(CoerceToRuleset(arg))
            /\ arg.tag = "rule" => ret.res.value = arg.rule
       ELSE ret.res = Raise("SingleRuleExpectedError")
  /\ (ret.op = "wrap" /\ Denoted(arg) # 1) => ret.res = Raise("SingleRuleExpectedError")
  /\ (ret.op = "wrap" /\ Denoted(arg) = 1) => ret.res.kind = "adapter"

\* create_wrapper refused a list of two Rules.
C9_Witness ==
  /\ ret.op = "wrap"
  /\ arg.tag = "list"
  /\ Denoted(arg) = 2
  /\ ret.res = Raise("SingleRuleExpectedError")

OptAt(ts) == {i \in DOMAIN ts : ts[i].kind = "opt"}

\* terms item i contributes when the groups at the positions S are present
Width(ts, S, i) ==
  IF ts[i].kind = "opt" THEN (IF i \in S THEN Len(ts[i].terms) ELSE 0) ELSE 1

RECURSIVE Offset(_, _, _)
Offset(ts, S, i) == IF i = 1 THEN 0 ELSE Offset(ts, S, i - 1) + Width(ts, S, i - 1)

\* the term sequence with exactly the groups at S present, by position
Variant(ts, S) ==
  [q \in 1..Offset(ts, S, Len(ts) + 1) |->
     LET i == CHOOSE j \in DOMAIN ts : Offset(ts, S, j) < q /\ q <= Offset(ts, S, j) + Width(ts, S, j)
     IN  IF ts[i].kind = "opt" THEN ts[i].terms[q - Offset(ts, S, i)] ELSE ts[i]]

RECURSIVE Pow2(_)
Pow2(k) == IF k = 0 THEN 1 ELSE 2 * Pow2(k - 1)

\* C6: for a Rule with k optional groups expand_optionals returns between 1
\* and 2^k entries: the flattened Rule of every present/absent assignment
\* (present groups' terms at their position, absent groups' terms left
\* out), each once, so no two entries are identical; the example rule gives
\* exactly the variants of length 2 and 4.
C6_DeduplicatedPowerSet ==
  (ret.op = "expand" /\ Denoted(arg.input) = 1) =>
    LET rule     == CoerceToRuleset(arg.input)[1]
        k        == Cardinality(OptAt(rule.terms))
        variants == {Rule(rule.name, Variant(rule.terms, S)) : S \in SUBSET OptAt(rule.terms)}
        expected == IF arg.format THEN {Format(v, arg.pure_ply) : v \in variants} ELSE variants
    IN  /\ BagToSet(ret.res) = expected
        /\ \A e \in BagToSet(ret.res) : CopiesIn(e, ret.res) = 1
        /\ BagCardinality(ret.res) >= 1
        /\ BagCardinality(ret.res) <= Pow2(k)
        /\ (arg.input = StrArg(ExampleText) /\ ~arg.format) =>
             /\ BagCardinality(ret.res) = 2
             /\ {Len(r.terms) : r \in BagToSet(ret.res)} = {2, 4}

\* Two assignments of a Rule with two groups gave the same flattened Rule
\* and were collapsed.
C6_Witness ==
  /\ ret.op = "expand"
  /\ ~arg.format
  /\ arg.input.tag = "rule"
  /\ Cardinality(OptAt(arg.input.rule.terms)) = 2
  /\ BagCardinality(ret.res) = 3

====
